---- MODULE Spec2Model ----
(***************************************************************************)
(* Per-call voice-turn pipeline: session.py (Session, SessionManager),     *)
(* main.py (media_ws) and the helpers of utils.py, run by one asyncio      *)
(* event loop.  A coroutine keeps the loop until it awaits something that  *)
(* suspends; the HTTP, ffmpeg and Twilio calls of _process_turn are         *)
(* synchronous, so a turn occupies the loop from its first to its last     *)
(* line.                                                                   *)
(***************************************************************************)
EXTENDS Integers, Sequences, FiniteSets, TLC

\* ------------------------------------------------------------------ bounds
\* media events of the single call of Spec
MaxFrames == 4
\* media events over the two calls of SpecCalls
MaxCallFrames == 2
\* transcriptions, over all calls, in which the speech-to-text engine hears words
MaxUtterances == 1

\* --------------------------------------------------------- program constants
CHUNK_MS == 800
SAMPLE_RATE == 16000
BYTES_PER_SAMPLE == 2
VAD_RATE == 8000
VAD_FRAME_MS == 30
MinWordsPerChunk == 5
MAX_BUFFER_SECONDS == 20

\* connection slots (one media_ws coroutine each) and Twilio call identifiers
Sessions == {1, 2}
CallIds == {"CA1", "CA2"}
NoSession == 0
NoCall == "none"

\* sizes in bytes of the decoded PCM of one media frame
FrameSizes == {4000, 12800}

\* a payload that decodes to ten seconds of audio at the trigger's byte rate
FloodSizes == {320000}

\* ------------------------------------------------------------------- text
\* A text is a sequence of one-character strings.
Hi == <<"H", "i">>
There == <<" ", "t", "h", "e", "r", "e">>
Bang == <<"!">>
Blank == <<" ">>
Hello == <<"h", "e", "l", "l", "o">>
FourWords == <<"a", " ", "b", " ", "c", " ", "d">>
SpaceE == <<" ", "e">>
SpaceF == <<" ", "f">>
Apology == <<"L", "o", " ", "s", "i", "e", "n", "t", "o">>

IsSpace(ch) == ch = " "

\* str.split(): the number of maximal runs of non-whitespace characters
WordCount(t) ==
    Cardinality({i \in 1..Len(t) : ~IsSpace(t[i]) /\ (i = 1 \/ IsSpace(t[i - 1]))})

\* str.strip(): drop leading and trailing whitespace
Strip(t) ==
    LET ink == {i \in 1..Len(t) : ~IsSpace(t[i])}
    IN  IF ink = {} THEN <<>>
        ELSE LET lo == CHOOSE i \in ink : \A j \in ink : i <= j
                 hi == CHOOSE i \in ink : \A j \in ink : j <= i
             IN  SubSeq(t, lo, hi)

\* transcripts the speech-to-text engine may return with status 200
Transcripts == {<<>>, Blank, Hello}

\* delta sequences the generation engine may stream (an empty delta is a
\* chunk whose "content" is missing or empty)
Streams ==
    { <<Hi, There, Bang>>,
      <<FourWords, SpaceE, <<>>, SpaceF>>,
      <<Blank>> }

\* ------------------------------------------------------------------ audio
\* 16000 * 2 * (CHUNK_MS / 1000.0)
Threshold == (SAMPLE_RATE * BYTES_PER_SAMPLE * CHUNK_MS) \div 1000

\* int(sample_rate * (frame_ms / 1000.0) * 2)
VadFrameBytes == (VAD_RATE * VAD_FRAME_MS * 2) \div 1000

RECURSIVE BufLen(_)
\* len(self.buffer): the buffer is a sequence of frames [id, size]
BufLen(b) == IF b = <<>> THEN 0 ELSE Head(b).size + BufLen(Tail(b))

TriggerReachedIntDiv(b) == BufLen(b) >= SAMPLE_RATE * BYTES_PER_SAMPLE * (CHUNK_MS \div 1000)

\* the size trigger of on_message
TriggerReached(b) == BufLen(b) >= Threshold

RECURSIVE Concat(_)
Concat(ds) == IF ds = <<>> THEN <<>> ELSE Head(ds) \o Concat(Tail(ds))

IsPrefix(a, b) == Len(a) <= Len(b) /\ SubSeq(b, 1, Len(a)) = a

\* ------------------------------------------------------------------ state
VARIABLES
    env,                   \* what the environment will do: the slots it connects,
                           \* its media frames and their sizes, the verdicts of
                           \* the VAD engine
    sessions,              \* SessionManager.sessions: call_sid -> slot
    conn,                  \* position of the media_ws coroutine of a slot
    call_sid,              \* Session.call_sid
    buffer,                \* Session.buffer
    lock,                  \* Session.lock is held
    processing,            \* Session.processing
    last_voice_ts,         \* Session.last_voice_ts: 0 is None, 1 a loop time
    conversation_history,  \* Session.conversation_history
    tasks,                 \* _process_turn tasks created and not yet started
    running,               \* the coroutine that occupies the event loop
    tpc,                   \* position of the slot's _process_turn execution
    owner,                 \* who runs it: "task" or "reader"
    wav,                   \* the WAV artifact of the turn
    text,                  \* local text
    stream,                \* deltas the response has not yet delivered
    response_text,         \* local response_text
    partial_text,          \* local partial_text
    min_words,             \* local min_words_per_chunk
    nframes,               \* media frames decoded by the slot so far
    transcribed,           \* ids of the frames handed to transcribe_wav, in order
    heard,                 \* the frames the current turn gave to transcribe_wav
    received,              \* deltas consumed by the current turn
    synth,                 \* texts submitted to synthesize_tts by the turn
    played,                \* texts dispatched by twilio_redirect_play
    base,                  \* len(conversation_history) when the turn began
    stopbuf,               \* buffer when the pending stop event was read
    active                 \* executions of _process_turn that hold the slot's guard

sessVars == <<env, sessions, conn, call_sid, buffer, lock, processing, last_voice_ts,
              conversation_history, tasks, running>>
turnVars == <<tpc, owner, wav, text, stream, response_text, partial_text, min_words>>
ghostVars == <<nframes, transcribed, heard, received, synth, played, base, stopbuf, active>>
vars == <<sessVars, turnVars, ghostVars>>

Idle == <<"idle", 0>>
Reader(s) == <<"reader", s>>
Task(s) == <<"task", s>>

NoWav == [frames |-> <<>>, exists |-> FALSE]

TotalFrames == nframes[1] + nframes[2]

\* user entries of a history
Users(h) == Cardinality({i \in 1..Len(h) : h[i].role = "user"})

Utterances == Users(conversation_history[1]) + Users(conversation_history[2])

Quiet ==
    /\ sessions = [c \in CallIds |-> NoSession]
    /\ conn = [s \in Sessions |-> "idle"]
    /\ call_sid = [s \in Sessions |-> NoCall]
    /\ buffer = [s \in Sessions |-> <<>>]
    /\ lock = [s \in Sessions |-> FALSE]
    /\ processing = [s \in Sessions |-> FALSE]
    /\ last_voice_ts = [s \in Sessions |-> 0]
    /\ conversation_history = [s \in Sessions |-> <<>>]
    /\ tasks = [s \in Sessions |-> 0]
    /\ running = Idle
    /\ tpc = [s \in Sessions |-> "none"]
    /\ owner = [s \in Sessions |-> "none"]
    /\ wav = [s \in Sessions |-> NoWav]
    /\ text = [s \in Sessions |-> <<>>]
    /\ stream = [s \in Sessions |-> <<>>]
    /\ response_text = [s \in Sessions |-> <<>>]
    /\ partial_text = [s \in Sessions |-> <<>>]
    /\ min_words = [s \in Sessions |-> 0]
    /\ nframes = [s \in Sessions |-> 0]
    /\ transcribed = [s \in Sessions |-> <<>>]
    /\ received = [s \in Sessions |-> <<>>]
    /\ synth = [s \in Sessions |-> <<>>]
    /\ played = [s \in Sessions |-> <<>>]
    /\ base = [s \in Sessions |-> 0]
    /\ stopbuf = [s \in Sessions |-> <<>>]
    /\ heard = [s \in Sessions |-> <<>>]
    /\ active = [s \in Sessions |-> 0]

\* one call
Init ==
    /\ env = [slots |-> {1}, frames |-> MaxFrames, speech |-> BOOLEAN, sizes |-> FrameSizes]
    /\ Quiet

\* two connections, for the same call or for two calls
InitCalls ==
    /\ env = [slots |-> Sessions, frames |-> MaxCallFrames, speech |-> {FALSE},
              sizes |-> FrameSizes]
    /\ Quiet

\* one call whose media frames are long
InitFlood ==
    /\ env = [slots |-> {1}, frames |-> MaxFrames, speech |-> {FALSE}, sizes |-> FloodSizes]
    /\ Quiet

\* ------------------------------------------------------------- event loop
\* Positions of _process_turn at which the coroutine awaits and so gives the
\* loop to other coroutines: none, every call in its body is synchronous.
AwaitPointsAsync == {"transcribe", "stream", "tts_partial", "tts_final"}

AwaitPoints == {}

\* asyncio.Lock.acquire returns at once only when the lock is not held
LockFree(s) == ~lock[s]

OwnerCo(s) == IF owner[s] = "task" THEN Task(s) ELSE Reader(s)

\* the media_ws coroutine of slot s gets (or keeps) the loop
CanResume(s) == running = Idle \/ running = Reader(s)

\* a frame-reading coroutine is handed the next message of its socket
CanReceive(s) == conn[s] = "recv" /\ CanResume(s)

InOwnTurn(s) == owner[s] = "reader" /\ tpc[s] # "none"

\* positions of media_ws inside "await self._process_turn()": from on_message
\* for a stop event, from on_disconnect after WebSocketDisconnect (lines
\* 65-67) and after any other exception (lines 68-71)
TurnCalls == {"stop_turn", "disc_turn", "err_turn"}

\* utils.is_speech_present: too short a frame is never speech
IsSpeechPresent(size, vad) == IF size < VadFrameBytes THEN FALSE ELSE vad

\* ------------------------------------------------------- main.py: media_ws
ConnectKeepsFirst(s, c) ==
    /\ conn[s] = "idle"
    /\ s \in env.slots
    /\ running = Idle
    /\ \A t \in Sessions : t < s => conn[t] # "idle"
    /\ sessions' = IF sessions[c] # NoSession THEN sessions ELSE [sessions EXCEPT ![c] = s]
    /\ call_sid' = [call_sid EXCEPT ![s] = c]
    /\ conn' = [conn EXCEPT ![s] = "recv"]
    /\ running' = Reader(s)
    /\ UNCHANGED <<env, buffer, lock, processing, last_voice_ts, conversation_history, tasks>>
    /\ UNCHANGED <<turnVars, ghostVars>>

\* websocket.accept(); manager.create_session(call_sid, websocket).
\* Slots are numbered in the order the connections are accepted.
Connect(s, c) ==
    /\ conn[s] = "idle"
    /\ s \in env.slots
    /\ running = Idle
    /\ \A t \in Sessions : t < s => conn[t] # "idle"
    /\ sessions' = [sessions EXCEPT ![c] = s]
    /\ call_sid' = [call_sid EXCEPT ![s] = c]
    /\ conn' = [conn EXCEPT ![s] = "recv"]
    /\ running' = Reader(s)
    /\ UNCHANGED <<env, buffer, lock, processing, last_voice_ts, conversation_history, tasks>>
    /\ UNCHANGED <<turnVars, ghostVars>>

\* receive_text() suspends the coroutine when no message is queued
ReaderYield(s) ==
    /\ running = Reader(s)
    /\ \/ conn[s] = "recv"
       \/ conn[s] \in TurnCalls /\ ~InOwnTurn(s) /\ ~LockFree(s)
    /\ running' = Idle
    /\ UNCHANGED <<env, sessions, conn, call_sid, buffer, lock, processing, last_voice_ts,
                   conversation_history, tasks>>
    /\ UNCHANGED <<turnVars, ghostVars>>

\* on_message, event == "media", payload decodes
RecvMedia(s, size, vad) ==
    /\ CanReceive(s)
    /\ TotalFrames < env.frames
    /\ size \in env.sizes
    /\ vad \in env.speech
    /\ LET frame == [id |-> nframes[s] + 1, size |-> size]
           buf == Append(buffer[s], frame)
       IN  /\ buffer' = [buffer EXCEPT ![s] = buf]
           /\ nframes' = [nframes EXCEPT ![s] = @ + 1]
           /\ last_voice_ts' = [last_voice_ts EXCEPT ![s] =
                                  IF IsSpeechPresent(size, vad) THEN 1 ELSE @]
           /\ tasks' = [tasks EXCEPT ![s] =
                          IF TriggerReached(buf) /\ ~processing[s] THEN @ + 1 ELSE @]
    /\ running' = Reader(s)
    /\ UNCHANGED <<env, sessions, conn, call_sid, lock, processing, conversation_history>>
    /\ UNCHANGED <<turnVars, transcribed, heard, received, synth, played, base, stopbuf, active>>

\* on_message, event == "media", base64.b64decode raises: the exception
\* leaves on_message and media_ws's "except Exception" (lines 68-71) calls
\* on_disconnect
RecvMalformed(s) ==
    /\ CanReceive(s)
    /\ conn' = [conn EXCEPT ![s] = "err_turn"]
    /\ running' = Reader(s)
    /\ UNCHANGED <<env, sessions, call_sid, buffer, lock, processing, last_voice_ts,
                   conversation_history, tasks>>
    /\ UNCHANGED <<turnVars, ghostVars>>

RecvOtherAsStop(s) ==
    /\ CanReceive(s)
    /\ conn' = [conn EXCEPT ![s] = "stop_turn"]
    /\ stopbuf' = [stopbuf EXCEPT ![s] = buffer[s]]
    /\ running' = Reader(s)
    /\ UNCHANGED <<env, sessions, call_sid, buffer, lock, processing, last_voice_ts,
                   conversation_history, tasks>>
    /\ UNCHANGED <<turnVars, nframes, transcribed, heard, received, synth, played, base, active>>

\* on_message, any other event
RecvOther(s) ==
    /\ CanReceive(s)
    /\ running' = Reader(s)
    /\ UNCHANGED <<env, sessions, conn, call_sid, buffer, lock, processing, last_voice_ts,
                   conversation_history, tasks>>
    /\ UNCHANGED <<turnVars, ghostVars>>

\* on_message, event == "stop": await self._process_turn()
RecvStop(s) ==
    /\ CanReceive(s)
    /\ conn' = [conn EXCEPT ![s] = "stop_turn"]
    /\ stopbuf' = [stopbuf EXCEPT ![s] = buffer[s]]
    /\ running' = Reader(s)
    /\ UNCHANGED <<env, sessions, call_sid, buffer, lock, processing, last_voice_ts,
                   conversation_history, tasks>>
    /\ UNCHANGED <<turnVars, nframes, transcribed, heard, received, synth, played, base, active>>

\* receive_text() raises WebSocketDisconnect: await session.on_disconnect()
RecvDisconnect(s) ==
    /\ CanReceive(s)
    /\ conn' = [conn EXCEPT ![s] = "disc_turn"]
    /\ running' = Reader(s)
    /\ UNCHANGED <<env, sessions, call_sid, buffer, lock, processing, last_voice_ts,
                   conversation_history, tasks>>
    /\ UNCHANGED <<turnVars, ghostVars>>

\* ------------------------------------------- session.py: Session._process_turn
\* the turn of slot s may take its next step
InTurn(s, p) == tpc[s] = p /\ (running = OwnerCo(s) \/ running = Idle)

\* what no step of a turn changes
turnFixed == <<env, sessions, call_sid, last_voice_ts, nframes>>

\* the step leaves the turn at position p, suspended if p awaits
Goto(s, p) ==
    /\ tpc' = [tpc EXCEPT ![s] = p]
    /\ running' = IF p \in AwaitPoints THEN Idle ELSE OwnerCo(s)
    /\ UNCHANGED <<lock, owner, conn, base, stopbuf, active>>

\* the execution ends (return, or an exception when how = "raised"): the
\* "async with" releases the lock, the locals are gone and control goes
\* back to the caller
Leave(s, how) ==
    /\ tpc' = [tpc EXCEPT ![s] = "none"]
    /\ owner' = [owner EXCEPT ![s] = "none"]
    /\ lock' = [lock EXCEPT ![s] = FALSE]
    /\ wav' = [wav EXCEPT ![s] = NoWav]
    /\ text' = [text EXCEPT ![s] = <<>>]
    /\ stream' = [stream EXCEPT ![s] = <<>>]
    /\ response_text' = [response_text EXCEPT ![s] = <<>>]
    /\ partial_text' = [partial_text EXCEPT ![s] = <<>>]
    /\ min_words' = [min_words EXCEPT ![s] = 0]
    /\ heard' = [heard EXCEPT ![s] = <<>>]
    /\ received' = [received EXCEPT ![s] = <<>>]
    /\ synth' = [synth EXCEPT ![s] = <<>>]
    /\ played' = [played EXCEPT ![s] = <<>>]
    /\ base' = [base EXCEPT ![s] = 0]
    /\ stopbuf' = [stopbuf EXCEPT ![s] = <<>>]
    /\ active' = [active EXCEPT ![s] = @ - 1]
    /\ IF owner[s] = "task"
       THEN running' = Idle /\ UNCHANGED conn
       ELSE IF conn[s] = "stop_turn"
            THEN /\ conn' = [conn EXCEPT ![s] = IF how = "raised" THEN "err_turn" ELSE "recv"]
                 /\ running' = Reader(s)
            ELSE /\ conn' = [conn EXCEPT ![s] = "closed"]
                 /\ running' = Idle

\* lines 78-79: the lock is taken and the flag set
Enter(s, who) ==
    /\ lock' = [lock EXCEPT ![s] = TRUE]
    /\ processing' = [processing EXCEPT ![s] = TRUE]
    /\ owner' = [owner EXCEPT ![s] = who]
    /\ tpc' = [tpc EXCEPT ![s] = "check"]
    /\ running' = IF who = "task" THEN Task(s) ELSE Reader(s)
    /\ base' = [base EXCEPT ![s] = Len(conversation_history[s])]
    /\ active' = [active EXCEPT ![s] = @ + 1]
    /\ UNCHANGED <<turnFixed, conn, buffer, conversation_history, transcribed, stopbuf>>
    /\ UNCHANGED <<wav, text, stream, response_text, partial_text, min_words>>
    /\ UNCHANGED <<heard, received, synth, played>>

\* _process_turn entered by a task made by asyncio.create_task
EnterTask(s) ==
    /\ tasks[s] > 0
    /\ running = Idle
    /\ LockFree(s)
    /\ tasks' = [tasks EXCEPT ![s] = @ - 1]
    /\ Enter(s, "task")

\* _process_turn entered from on_message ("stop") or on_disconnect
EnterReader(s) ==
    /\ conn[s] \in TurnCalls
    /\ ~InOwnTurn(s)
    /\ CanResume(s)
    /\ LockFree(s)
    /\ Enter(s, "reader")
    /\ UNCHANGED tasks

CheckEmptyBelowThreshold(s) ==
    /\ InTurn(s, "check")
    /\ IF ~TriggerReached(buffer[s])
       THEN /\ processing' = [processing EXCEPT ![s] = FALSE]
            /\ Leave(s, "noop")
       ELSE /\ Goto(s, "save")
            /\ UNCHANGED processing
            /\ UNCHANGED <<wav, text, stream, response_text, partial_text, min_words>>
            /\ UNCHANGED <<heard, received, synth, played>>
    /\ UNCHANGED <<turnFixed, tasks, buffer, conversation_history, transcribed>>

\* lines 80-82
CheckEmpty(s) ==
    /\ InTurn(s, "check")
    /\ IF buffer[s] = <<>>
       THEN /\ processing' = [processing EXCEPT ![s] = FALSE]
            /\ Leave(s, "noop")
       ELSE /\ Goto(s, "save")
            /\ UNCHANGED processing
            /\ UNCHANGED <<wav, text, stream, response_text, partial_text, min_words>>
            /\ UNCHANGED <<heard, received, synth, played>>
    /\ UNCHANGED <<turnFixed, tasks, buffer, conversation_history, transcribed>>

\* line 85, utils.save_raw_pcm_to_wav: it raises (open, subprocess.run or
\* os.remove fails), or returns the path of a WAV that ffmpeg did ("ok") or
\* did not ("nofile") write; its exit status is not looked at
SaveWav(s, out) ==
    /\ InTurn(s, "save")
    /\ IF out = "raise"
       THEN Leave(s, "raised")
       ELSE /\ wav' = [wav EXCEPT ![s] = [frames |-> buffer[s], exists |-> out = "ok"]]
            /\ Goto(s, "clear")
            /\ UNCHANGED <<text, stream, response_text, partial_text, min_words>>
            /\ UNCHANGED <<heard, received, synth, played>>
    /\ UNCHANGED <<turnFixed, tasks, buffer, processing, conversation_history, transcribed>>

ClearBufferSkipped(s) ==
    /\ InTurn(s, "clear")
    /\ Goto(s, "transcribe")
    /\ UNCHANGED <<turnFixed, tasks, buffer, processing, conversation_history, transcribed>>
    /\ UNCHANGED <<wav, text, stream, response_text, partial_text, min_words>>
    /\ UNCHANGED <<heard, received, synth, played>>

\* line 87
ClearBuffer(s) ==
    /\ InTurn(s, "clear")
    /\ buffer' = [buffer EXCEPT ![s] = <<>>]
    /\ Goto(s, "transcribe")
    /\ UNCHANGED <<turnFixed, tasks, processing, conversation_history, transcribed>>
    /\ UNCHANGED <<wav, text, stream, response_text, partial_text, min_words>>
    /\ UNCHANGED <<heard, received, synth, played>>

\* ids of the frames of a buffer
Ids(b) == [i \in 1..Len(b) |-> b[i].id]

\* lines 90-94, utils.transcribe_wav: the request answers 200 with the
\* transcript res (ok) or fails or answers another status (~ok); a missing
\* file makes open() raise; the WAV is removed only after a 200 answer
Transcribe(s, ok, res) ==
    /\ InTurn(s, "transcribe")
    /\ Strip(res) # <<>> => Utterances < MaxUtterances
    /\ transcribed' = [transcribed EXCEPT ![s] = @ \o Ids(wav[s].frames)]
    /\ heard' = [heard EXCEPT ![s] = wav[s].frames]
    /\ IF ~wav[s].exists \/ ~ok
       THEN /\ text' = [text EXCEPT ![s] = <<>>]
            /\ UNCHANGED wav
       ELSE /\ text' = [text EXCEPT ![s] = res]
            /\ wav' = [wav EXCEPT ![s].exists = FALSE]
    /\ Goto(s, "check_text")
    /\ UNCHANGED <<turnFixed, tasks, buffer, processing, conversation_history>>
    /\ UNCHANGED <<stream, response_text, partial_text, min_words>>
    /\ UNCHANGED <<received, synth, played>>

CheckTextNoStrip(s) ==
    /\ InTurn(s, "check_text")
    /\ IF text[s] = <<>>
       THEN /\ processing' = [processing EXCEPT ![s] = FALSE]
            /\ Leave(s, "notext")
            /\ UNCHANGED conversation_history
       ELSE /\ conversation_history' = [conversation_history EXCEPT ![s] =
                    Append(@, [role |-> "user", content |-> text[s]])]
            /\ response_text' = [response_text EXCEPT ![s] = <<>>]
            /\ partial_text' = [partial_text EXCEPT ![s] = <<>>]
            /\ min_words' = [min_words EXCEPT ![s] = MinWordsPerChunk]
            /\ Goto(s, "request")
            /\ UNCHANGED <<processing, wav, text, stream, heard, received, synth, played>>
    /\ UNCHANGED <<turnFixed, tasks, buffer, transcribed>>

\* lines 97-110
CheckText(s) ==
    /\ InTurn(s, "check_text")
    /\ IF Strip(text[s]) = <<>>
       THEN /\ processing' = [processing EXCEPT ![s] = FALSE]
            /\ Leave(s, "notext")
            /\ UNCHANGED conversation_history
       ELSE /\ conversation_history' = [conversation_history EXCEPT ![s] =
                    Append(@, [role |-> "user", content |-> text[s]])]
            /\ response_text' = [response_text EXCEPT ![s] = <<>>]
            /\ partial_text' = [partial_text EXCEPT ![s] = <<>>]
            /\ min_words' = [min_words EXCEPT ![s] = MinWordsPerChunk]
            /\ Goto(s, "request")
            /\ UNCHANGED <<processing, wav, text, stream, heard, received, synth, played>>
    /\ UNCHANGED <<turnFixed, tasks, buffer, transcribed>>

\* lines 126-128: requests.post raises or answers a status other than 200
\* (~ok), or the response starts streaming the deltas res
Request(s, ok, res) ==
    /\ InTurn(s, "request")
    /\ IF ~ok
       THEN Goto(s, "llm_error") /\ UNCHANGED stream
       ELSE Goto(s, "stream") /\ stream' = [stream EXCEPT ![s] = res]
    /\ UNCHANGED <<turnFixed, tasks, buffer, processing, conversation_history, transcribed>>
    /\ UNCHANGED <<wav, text, response_text, partial_text, min_words>>
    /\ UNCHANGED <<heard, received, synth, played>>

ChunkReadyStrict(t, n) == WordCount(t) > n

\* line 142: the pending text has reached the chunk size
ChunkReady(t, n) == WordCount(t) >= n

\* lines 130-142: one iteration of the loop over r.iter_lines(); the stream
\* is over at "[DONE]" or when the connection closes
StreamNext(s) ==
    /\ InTurn(s, "stream")
    /\ IF stream[s] = <<>>
       THEN /\ Goto(s, "final")
            /\ UNCHANGED <<stream, response_text, partial_text, received>>
       ELSE LET delta == Head(stream[s])
                pending == partial_text[s] \o delta
            IN  /\ stream' = [stream EXCEPT ![s] = Tail(@)]
                /\ IF delta = <<>>
                   THEN /\ Goto(s, "stream")
                        /\ UNCHANGED <<response_text, partial_text, received>>
                   ELSE /\ response_text' = [response_text EXCEPT ![s] = @ \o delta]
                        /\ partial_text' = [partial_text EXCEPT ![s] = pending]
                        /\ received' = [received EXCEPT ![s] = Append(@, delta)]
                        /\ Goto(s, IF ChunkReady(pending, min_words[s])
                                   THEN "tts_partial" ELSE "stream")
    /\ UNCHANGED <<turnFixed, tasks, buffer, processing, conversation_history, transcribed>>
    /\ UNCHANGED <<wav, text, min_words, heard, synth, played>>

\* lines 130-137 raise (transport error in iter_lines, a line that is not
\* JSON): the "except Exception" of line 163 takes over
StreamError(s) ==
    /\ InTurn(s, "stream")
    /\ Goto(s, "llm_error")
    /\ UNCHANGED <<turnFixed, tasks, buffer, processing, conversation_history, transcribed>>
    /\ UNCHANGED <<wav, text, stream, response_text, partial_text, min_words>>
    /\ UNCHANGED <<heard, received, synth, played>>

SubmitReordered(s, out) ==
    /\ synth' = [synth EXCEPT ![s] = Append(@, partial_text[s])]
    /\ played' = [played EXCEPT ![s] = IF out = "ok" THEN <<partial_text[s]>> \o @ ELSE @]

\* synthesize_tts(partial_text) then twilio_redirect_play: out is "ok",
\* "synth_fail" (synthesize_tts raises) or "play_fail" (the dispatch raises)
Submit(s, out) ==
    /\ synth' = [synth EXCEPT ![s] = Append(@, partial_text[s])]
    /\ played' = [played EXCEPT ![s] = IF out = "ok" THEN Append(@, partial_text[s]) ELSE @]

TtsPartialAborts(s, out) ==
    /\ InTurn(s, "tts_partial")
    /\ Submit(s, out)
    /\ partial_text' = [partial_text EXCEPT ![s] = <<>>]
    /\ Goto(s, IF out = "ok" THEN "stream" ELSE "llm_error")
    /\ UNCHANGED <<turnFixed, tasks, buffer, processing, conversation_history, transcribed>>
    /\ UNCHANGED <<wav, text, stream, response_text, min_words, heard, received>>

\* lines 143-149
TtsPartial(s, out) ==
    /\ InTurn(s, "tts_partial")
    /\ Submit(s, out)
    /\ partial_text' = [partial_text EXCEPT ![s] = <<>>]
    /\ Goto(s, "stream")
    /\ UNCHANGED <<turnFixed, tasks, buffer, processing, conversation_history, transcribed>>
    /\ UNCHANGED <<wav, text, stream, response_text, min_words, heard, received>>

\* line 152
CheckRemainder(s) ==
    /\ InTurn(s, "final")
    /\ Goto(s, IF Strip(partial_text[s]) # <<>> THEN "tts_final" ELSE "commit")
    /\ UNCHANGED <<turnFixed, tasks, buffer, processing, conversation_history, transcribed>>
    /\ UNCHANGED <<wav, text, stream, response_text, partial_text, min_words>>
    /\ UNCHANGED <<heard, received, synth, played>>

\* lines 153-158
TtsFinal(s, out) ==
    /\ InTurn(s, "tts_final")
    /\ Submit(s, out)
    /\ Goto(s, "commit")
    /\ UNCHANGED <<turnFixed, tasks, buffer, processing, conversation_history, transcribed>>
    /\ UNCHANGED <<wav, text, stream, response_text, partial_text, min_words>>
    /\ UNCHANGED <<heard, received>>

CommitPending(s) ==
    /\ InTurn(s, "commit")
    /\ conversation_history' = [conversation_history EXCEPT ![s] =
            Append(@, [role |-> "assistant", content |-> partial_text[s]])]
    /\ Goto(s, "finish")
    /\ UNCHANGED <<turnFixed, tasks, buffer, processing, transcribed>>
    /\ UNCHANGED <<wav, text, stream, response_text, partial_text, min_words>>
    /\ UNCHANGED <<heard, received, synth, played>>

\* line 161
Commit(s) ==
    /\ InTurn(s, "commit")
    /\ conversation_history' = [conversation_history EXCEPT ![s] =
            Append(@, [role |-> "assistant", content |-> response_text[s]])]
    /\ Goto(s, "finish")
    /\ UNCHANGED <<turnFixed, tasks, buffer, processing, transcribed>>
    /\ UNCHANGED <<wav, text, stream, response_text, partial_text, min_words>>
    /\ UNCHANGED <<heard, received, synth, played>>

LlmErrorSpoken(s) ==
    /\ InTurn(s, "llm_error")
    /\ response_text' = [response_text EXCEPT ![s] = Apology]
    /\ synth' = [synth EXCEPT ![s] = Append(@, Apology)]
    /\ played' = [played EXCEPT ![s] = Append(@, Apology)]
    /\ Goto(s, "finish")
    /\ UNCHANGED <<turnFixed, tasks, buffer, processing, conversation_history, transcribed>>
    /\ UNCHANGED <<wav, text, stream, partial_text, min_words>>
    /\ UNCHANGED <<heard, received>>

\* lines 163-165
LlmError(s) ==
    /\ InTurn(s, "llm_error")
    /\ response_text' = [response_text EXCEPT ![s] = Apology]
    /\ Goto(s, "finish")
    /\ UNCHANGED <<turnFixed, tasks, buffer, processing, conversation_history, transcribed>>
    /\ UNCHANGED <<wav, text, stream, partial_text, min_words>>
    /\ UNCHANGED <<heard, received, synth, played>>

\* lines 167-170 and the end of the "async with"
Finish(s) ==
    /\ InTurn(s, "finish")
    /\ processing' = [processing EXCEPT ![s] = FALSE]
    /\ Leave(s, "done")
    /\ UNCHANGED <<turnFixed, tasks, buffer, conversation_history, transcribed>>

\* ---------------------------------------------------------- specification
Outcomes == {"ok", "synth_fail", "play_fail"}

Next ==
    \/ \E s \in Sessions, c \in CallIds : Connect(s, c)
    \/ \E s \in Sessions : ReaderYield(s)
    \/ \E s \in Sessions, size \in FrameSizes \cup FloodSizes, vad \in BOOLEAN :
            RecvMedia(s, size, vad)
    \/ \E s \in Sessions : RecvMalformed(s)
    \/ \E s \in Sessions : RecvOther(s)
    \/ \E s \in Sessions : RecvStop(s)
    \/ \E s \in Sessions : RecvDisconnect(s)
    \/ \E s \in Sessions : EnterTask(s)
    \/ \E s \in Sessions : EnterReader(s)
    \/ \E s \in Sessions : CheckEmpty(s)
    \/ \E s \in Sessions, out \in {"ok", "nofile", "raise"} : SaveWav(s, out)
    \/ \E s \in Sessions : ClearBuffer(s)
    \/ \E s \in Sessions, ok \in BOOLEAN, res \in Transcripts : Transcribe(s, ok, res)
    \/ \E s \in Sessions : CheckText(s)
    \/ \E s \in Sessions, ok \in BOOLEAN, res \in Streams : Request(s, ok, res)
    \/ \E s \in Sessions : StreamNext(s)
    \/ \E s \in Sessions : StreamError(s)
    \/ \E s \in Sessions, out \in Outcomes : TtsPartial(s, out)
    \/ \E s \in Sessions : CheckRemainder(s)
    \/ \E s \in Sessions, out \in Outcomes : TtsFinal(s, out)
    \/ \E s \in Sessions : Commit(s)
    \/ \E s \in Sessions : LlmError(s)
    \/ \E s \in Sessions : Finish(s)

Spec == Init /\ [][Next]_vars

SpecCalls == InitCalls /\ [][Next]_vars

SpecFlood == InitFlood /\ [][Next]_vars

\* The chunking loop of lines 130-161 on its own: a turn whose request has
\* just been answered with status 200, for each stream and chunk size.
ChunkSizes == {2, 3, 5}

InitChunk ==
    /\ env = [slots |-> {1}, frames |-> 1, speech |-> BOOLEAN, sizes |-> FrameSizes]
    /\ sessions = [c \in CallIds |-> IF c = "CA1" THEN 1 ELSE NoSession]
    /\ conn = [s \in Sessions |-> IF s = 1 THEN "stop_turn" ELSE "idle"]
    /\ call_sid = [s \in Sessions |-> IF s = 1 THEN "CA1" ELSE NoCall]
    /\ buffer = [s \in Sessions |-> <<>>]
    /\ lock = [s \in Sessions |-> s = 1]
    /\ processing = [s \in Sessions |-> s = 1]
    /\ last_voice_ts \in [Sessions -> {0}]
    /\ conversation_history =
           [s \in Sessions |-> IF s = 1 THEN <<[role |-> "user", content |-> Hello]>> ELSE <<>>]
    /\ tasks = [s \in Sessions |-> 0]
    /\ running = Reader(1)
    /\ tpc = [s \in Sessions |-> IF s = 1 THEN "stream" ELSE "none"]
    /\ owner = [s \in Sessions |-> IF s = 1 THEN "reader" ELSE "none"]
    /\ wav = [s \in Sessions |-> NoWav]
    /\ text = [s \in Sessions |-> IF s = 1 THEN Hello ELSE <<>>]
    /\ \E d \in Streams : stream = [s \in Sessions |-> IF s = 1 THEN d ELSE <<>>]
    /\ response_text = [s \in Sessions |-> <<>>]
    /\ partial_text = [s \in Sessions |-> <<>>]
    /\ \E n \in ChunkSizes : min_words = [s \in Sessions |-> IF s = 1 THEN n ELSE 0]
    /\ nframes = [s \in Sessions |-> IF s = 1 THEN 1 ELSE 0]
    /\ transcribed = [s \in Sessions |-> IF s = 1 THEN <<1>> ELSE <<>>]
    /\ heard = [s \in Sessions |-> IF s = 1 THEN <<[id |-> 1, size |-> 4000]>> ELSE <<>>]
    /\ received = [s \in Sessions |-> <<>>]
    /\ synth = [s \in Sessions |-> <<>>]
    /\ played = [s \in Sessions |-> <<>>]
    /\ base = [s \in Sessions |-> 0]
    /\ stopbuf = [s \in Sessions |-> IF s = 1 THEN <<[id |-> 1, size |-> 4000]>> ELSE <<>>]
    /\ active = [s \in Sessions |-> IF s = 1 THEN 1 ELSE 0]

NextChunk ==
    \/ \E s \in Sessions : StreamNext(s)
    \/ \E s \in Sessions : StreamError(s)
    \/ \E s \in Sessions, out \in Outcomes : TtsPartial(s, out)
    \/ \E s \in Sessions : CheckRemainder(s)
    \/ \E s \in Sessions, out \in Outcomes : TtsFinal(s, out)
    \/ \E s \in Sessions : Commit(s)
    \/ \E s \in Sessions : LlmError(s)
    \/ \E s \in Sessions : Finish(s)

SpecChunk == InitChunk /\ [][NextChunk]_vars

\* ------------------------------------------------------------------ claims
\* executions of _process_turn that hold a guard for call identifier c
ActiveFor(c) ==
    (IF call_sid[1] = c THEN active[1] ELSE 0) + (IF call_sid[2] = c THEN active[2] ELSE 0)

\* C1: in every reachable state at most one execution of _process_turn is
\* between taking its guard and releasing it for any one call identifier.
C1_SingleFlight == \A c \in CallIds : ActiveFor(c) <= 1

\* a turn runs for a call identifier while a second session of the same
\* identifier has a size-triggered execution waiting to start
C1_Witness ==
    \E s, t \in Sessions :
        /\ s # t
        /\ call_sid[s] = call_sid[t]
        /\ active[s] = 1
        /\ tasks[t] > 0

\* C2: once no execution of _process_turn is running for a session, its
\* processing flag is false, whichever step of the turn failed.
C2_FlagReleased == \A s \in Sessions : active[s] = 0 => ~processing[s]

\* C3: while an execution triggered by the buffer reaching the threshold has
\* not started yet and the buffer is still at the threshold, a further media
\* chunk triggers no second execution.
C3_OneTurnPerCrossing ==
    [][\A s \in Sessions :
          (TriggerReached(buffer[s]) /\ tasks[s] > 0) => tasks'[s] <= tasks[s]]_vars

\* positions at which a turn waits for transcription, generation deltas,
\* synthesis or playback dispatch
InFlight(s) == tpc[s] \in {"transcribe", "request", "stream", "tts_partial", "tts_final"}

\* C4: while a turn is in flight for a call, the frame-reading coroutine of
\* that call and of every other call can be handed its next message.
C4_ReadersNotBlocked ==
    \A s, t \in Sessions : (InFlight(s) /\ conn[t] = "recv") => CanReceive(t)

C6_HistoryCommitted ==
    [][\A s \in Sessions :
          /\ IsPrefix(conversation_history[s], conversation_history'[s])
          /\ conversation_history'[s] # conversation_history[s]
                => tpc[s] \in {"check_text", "commit"}
          /\ (tpc[s] = "commit" /\ tpc'[s] = "finish")
                => /\ Strip(text[s]) # <<>>
                   /\ conversation_history'[s] =
                        SubSeq(conversation_history[s], 1, base[s])
                          \o <<[role |-> "user", content |-> text[s]],
                               [role |-> "assistant", content |-> Concat(received[s])]>>]_vars

\* a committed turn one of whose chunks was not played
C6_Witness ==
    \E s \in Sessions :
        /\ tpc[s] = "finish"
        /\ Len(conversation_history[s]) = base[s] + 2
        /\ synth[s] # <<>>
        /\ Len(played[s]) < Len(synth[s])

Count(q, x) == Cardinality({i \in 1..Len(q) : q[i] = x})

\* frames written to the WAV whose transcription has not been called yet
InTransit(s) == IF tpc[s] = "transcribe" THEN Ids(wav[s].frames) ELSE <<>>

\* C7: every frame appended to the buffer is in exactly one place: still
\* buffered, in the WAV about to be transcribed, or handed to one call of
\* transcribe_wav; and when transcribe_wav is about to be called the buffer
\* is empty and the WAV holds what was buffered.
C7_AudioConserved ==
    \A s \in Sessions :
        /\ \A id \in 1..nframes[s] :
              Count(Ids(buffer[s]), id) + Count(InTransit(s), id)
                + Count(transcribed[s], id) = 1
        /\ tpc[s] = "transcribe" => (buffer[s] = <<>> /\ wav[s].frames # <<>>)

\* audio of an earlier turn was handed over and a later turn is about to
\* hand over what was buffered since
C7_Witness ==
    \E s \in Sessions :
        /\ transcribed[s] # <<>>
        /\ tpc[s] = "transcribe"
        /\ wav[s].frames # <<>>

\* C8: on_message returns from a stop event only out of the turn it awaited,
\* with no execution left holding the guard, and if the buffer was not empty
\* when the stop event was read, whatever its size, that turn called
\* transcribe_wav on exactly that buffer.
C8_StopFlushes ==
    [][\A s \in Sessions :
          (conn[s] = "stop_turn" /\ conn'[s] = "recv")
              => /\ InOwnTurn(s)
                 /\ active'[s] = 0
                 /\ stopbuf[s] # <<>> => heard[s] = stopbuf[s]]_vars

\* a stop event's turn has transcribed a buffer shorter than the threshold
C8_Witness ==
    \E s \in Sessions :
        /\ conn[s] = "stop_turn"
        /\ tpc[s] = "check_text"
        /\ stopbuf[s] # <<>>
        /\ ~TriggerReached(stopbuf[s])
        /\ heard[s] = stopbuf[s]

\* C9: a media event schedules an execution only if the buffer then holds
\* at least the threshold.
C9_NoTriggerBelowThreshold ==
    [][\A s \in Sessions : tasks'[s] > tasks[s] => BufLen(buffer'[s]) >= Threshold]_vars

\* several media events, below the threshold in total, and nothing scheduled
C9_Witness ==
    \E s \in Sessions :
        /\ Len(buffer[s]) >= 2
        /\ BufLen(buffer[s]) < Threshold
        /\ tasks[s] = 0
        /\ ~processing[s]
        /\ active[s] = 0

\* C10: a media frame whose payload does not decode leaves the session open
\* and its buffer, history and processing flag as they were.
C10_MalformedFrameDropped ==
    [][\A s \in Sessions :
          RecvMalformed(s)
              => /\ conn'[s] = "recv"
                 /\ UNCHANGED <<buffer, conversation_history, processing>>]_vars

\* the media_ws coroutine of slot s has seen its socket disconnect
Disconnected(s) == conn[s] \in {"disc_turn", "closed"}

\* C11: once the disconnect of a call has been observed, no execution of
\* _process_turn enters processing for its session any more, neither from
\* the disconnect handler nor from a task scheduled earlier.
C11_NoTurnAfterDisconnect ==
    [][\A s \in Sessions : Disconnected(s) => active'[s] <= active[s]]_vars

\* C12: once the disconnect handling of a connection has completed, the
\* registry has no entry that leads to its session.
C12_EntryRemoved ==
    \A c \in CallIds : sessions[c] # NoSession => conn[sessions[c]] # "closed"

\* MAX_BUFFER_SECONDS of audio at the byte rate of the size trigger
MaxBufferBytes == MAX_BUFFER_SECONDS * SAMPLE_RATE * BYTES_PER_SAMPLE

\* C13: the buffer never holds more than MAX_BUFFER_SECONDS of audio.
C13_BufferBounded == \A s \in Sessions : BufLen(buffer[s]) <= MaxBufferBytes

\* C14: when an execution of _process_turn ends, the WAV file it created no
\* longer exists, whether transcription completed or failed.
C14_ArtifactsDeleted ==
    [][\A s \in Sessions : (tpc[s] # "none" /\ tpc'[s] = "none") => ~wav[s].exists]_vars

\* C15: a transcription that fails (the request fails, answers another
\* status, or the WAV is missing) leaves the transcript empty without
\* leaving the turn; a turn whose transcript is empty or whitespace-only
\* returns with the guard and the flag released and the history as it was,
\* having submitted nothing to synthesis or playback, and generation is only
\* requested for a transcript that is not blank.
C15_TranscriptionAbort ==
    [][\A s \in Sessions :
          /\ (tpc[s] = "transcribe"
                /\ (~wav[s].exists \/ \E res \in Transcripts : Transcribe(s, FALSE, res)))
                => (tpc'[s] = "check_text" /\ text'[s] = <<>>)
          /\ (tpc[s] = "check_text" /\ Strip(text[s]) = <<>>)
                => /\ tpc'[s] = "none"
                   /\ ~processing'[s]
                   /\ ~lock'[s]
                   /\ active'[s] = 0
                   /\ conversation_history'[s] = conversation_history[s]
                   /\ synth[s] = <<>> /\ played[s] = <<>>
                   /\ conn[s] = "stop_turn" => conn'[s] = "recv"
          /\ (tpc[s] # "request" /\ tpc'[s] = "request") => Strip(text[s]) # <<>>]_vars

\* a failed transcription in a call that already has history: the transcript
\* is empty and the WAV is still there
C15_Witness ==
    \E s \in Sessions :
        /\ tpc[s] = "check_text"
        /\ text[s] = <<>>
        /\ wav[s].exists
        /\ conversation_history[s] # <<>>

\* C16: when the generation request is refused or the stream breaks, the
\* turn goes on to its end without raising: the apology becomes the reply
\* that is logged, nothing is submitted to synthesis or playback for it, no
\* assistant entry is added, and the turn returns with the guard and the
\* flag released.
C16_GenerationFailure ==
    [][\A s \in Sessions :
          /\ ((\E res \in Streams : Request(s, FALSE, res)) \/ StreamError(s))
                => tpc'[s] = "llm_error"
          /\ tpc[s] = "llm_error"
                => /\ tpc'[s] = "finish"
                   /\ response_text'[s] = Apology
                   /\ synth'[s] = synth[s] /\ played'[s] = played[s]
                   /\ conversation_history'[s] = conversation_history[s]
          /\ (tpc[s] = "finish" /\ response_text[s] = Apology)
                => /\ tpc'[s] = "none"
                   /\ ~processing'[s]
                   /\ ~lock'[s]
                   /\ active'[s] = 0
                   /\ Len(conversation_history'[s]) = base[s] + 1
                   /\ conn[s] = "stop_turn" => conn'[s] = "recv"]_vars

\* the first call of the generation failed: the apology is the reply and
\* nothing was synthesized
C16_Witness ==
    \E s \in Sessions :
        /\ tpc[s] = "finish"
        /\ response_text[s] = Apology
        /\ received[s] = <<>>
        /\ synth[s] = <<>>

\* the pending text when it is blank, so that line 152 does not submit it
BlankRemainder(s) == IF Strip(partial_text[s]) = <<>> THEN partial_text[s] ELSE <<>>

\* C17: whatever the outcome of a chunk's synthesis and playback, the turn
\* goes on reading the stream where it was, at most that chunk is missing
\* from what is played, and when the stream has ended everything received
\* has been submitted, but for a blank remainder, and the turn goes on to
\* commit the reply.
C17_ChunkFailureIsolated ==
    [][\A s \in Sessions :
          /\ tpc[s] = "tts_partial"
                => /\ tpc'[s] = "stream"
                   /\ stream'[s] = stream[s]
                   /\ synth'[s] = Append(synth[s], partial_text[s])
                   /\ played'[s] \in {played[s], Append(played[s], partial_text[s])}
          /\ tpc[s] = "tts_final"
                => /\ tpc'[s] = "commit"
                   /\ synth'[s] = Append(synth[s], partial_text[s])
                   /\ played'[s] \in {played[s], Append(played[s], partial_text[s])}
          /\ (tpc[s] # "commit" /\ tpc'[s] = "commit")
                => Concat(synth'[s]) \o BlankRemainder(s) = Concat(received'[s])]_vars

\* the first chunk was lost and the rest of the reply was submitted and played
C17_Witness ==
    \E s \in Sessions :
        /\ tpc[s] = "commit"
        /\ Len(synth[s]) >= 2
        /\ played[s] = Tail(synth[s])

RECURSIVE IsSubsequence(_, _)
\* a is b with some elements left out
IsSubsequence(a, b) ==
    IF a = <<>> THEN TRUE
    ELSE IF b = <<>> THEN FALSE
    ELSE IF Head(a) = Head(b) THEN IsSubsequence(Tail(a), Tail(b))
    ELSE IsSubsequence(a, Tail(b))

\* C18: the texts dispatched to playback are, in this order, texts submitted
\* to synthesis, and the texts submitted are consecutive pieces of the reply
\* in the order the stream produced it; each submission is one synchronous
\* call made after the one before has returned.
C18_InOrderDispatch ==
    \A s \in Sessions :
        /\ IsSubsequence(played[s], synth[s])
        /\ IsPrefix(Concat(synth[s]), Concat(received[s]))

\* two chunks of one turn were dispatched
C18_Witness == \E s \in Sessions : Len(played[s]) = 2 /\ played[s][1] # played[s][2]

\* C19: a message whose event is neither media nor stop changes neither the
\* buffer, the last-voice timestamp, the processing flag nor the history of
\* any session, schedules no execution of _process_turn and starts none: the
\* coroutine goes back to reading its socket.
C19_OtherEventIgnored ==
    [][\A s \in Sessions :
          RecvOther(s)
              => /\ UNCHANGED <<buffer, last_voice_ts, processing, conversation_history>>
                 /\ UNCHANGED <<tasks, active, tpc, lock>>
                 /\ conn'[s] = "recv"]_vars

\* the coroutine is handed its next message while audio is buffered, speech
\* was detected, a size-triggered execution is pending and the call has
\* history
C19_Witness ==
    \E s \in Sessions :
        /\ CanReceive(s)
        /\ buffer[s] # <<>>
        /\ last_voice_ts[s] = 1
        /\ tasks[s] > 0
        /\ conversation_history[s] # <<>>

\* C20: an execution of _process_turn started by the size trigger calls
\* transcribe_wav only on audio of at least the threshold.
C20_TaskTranscribesThreshold ==
    \A s \in Sessions :
        (owner[s] = "task" /\ tpc[s] = "transcribe") => BufLen(wav[s].frames) >= Threshold

\* the fields of session s that a later create_session must not touch
OwnState(s) ==
    <<call_sid[s], buffer[s], lock[s], processing[s], last_voice_ts[s],
      conversation_history[s], tasks[s], tpc[s], conn[s]>>

\* the same fields after the step
OwnStateAfter(s) ==
    <<call_sid'[s], buffer'[s], lock'[s], processing'[s], last_voice_ts'[s],
      conversation_history'[s], tasks'[s], tpc'[s], conn'[s]>>

\* C21: when a connection is accepted, create_session registers a session
\* with an empty buffer, an empty history, a free guard and a false flag
\* under the call identifier, also when the identifier is registered
\* already; the session registered before keeps all of its state and no
\* identifier leads to it any more.
C21_DuplicateReplaces ==
    [][\A s \in Sessions :
          (conn[s] = "idle" /\ conn'[s] = "recv")
              => LET c == call_sid'[s]
                     old == sessions[c]
                 IN  /\ c \in CallIds
                     /\ sessions'[c] = s
                     /\ buffer'[s] = <<>>
                     /\ conversation_history'[s] = <<>>
                     /\ ~processing'[s]
                     /\ ~lock'[s]
                     /\ tasks'[s] = 0
                     /\ old # NoSession
                           => /\ old # s
                              /\ OwnStateAfter(old) = OwnState(old)
                              /\ \A d \in CallIds : sessions'[d] # old]_vars

\* a second connection for a call was accepted while the first session had
\* audio buffered and an execution pending: the registry leads to the new,
\* empty session and the old one still has its audio and its execution
C21_Witness ==
    \E c \in CallIds :
        /\ call_sid[1] = c
        /\ call_sid[2] = c
        /\ sessions[c] = 2
        /\ buffer[1] # <<>>
        /\ tasks[1] > 0
        /\ buffer[2] = <<>>
        /\ conn[2] = "recv"

====
